---- MODULE Spec2Model ----
(***************************************************************************)
(* AutoVRS backend: the connection-driven broadcast loop                   *)
(* (websocket_service.py), the frame acquisition thread                    *)
(* (camera_service.py) and the detection decoding                          *)
(* (defect_detection_service.py).                                          *)
(*                                                                         *)
(* The asyncio tasks of WebSocketManager are modelled at the granularity   *)
(* of their suspension points: everything a coroutine does between two     *)
(* awaits is one action.                                                   *)
(***************************************************************************)
EXTENDS Integers, Sequences, FiniteSets, TLC

\* ------------------------------------------------------------------ bounds
NumConns == 2            \* websockets that ever connect
MaxFrames == 2           \* frames the camera publishes while the stream model runs
MaxThreads == 2          \* _capture_loop threads that start_capture ever creates
MaxReads == 2            \* frames the device delivers while the camera model runs
MaxCountedReads == 3     \* frames the device delivers while the frame-info model runs
MaxCands == 2            \* candidates in one model output
MaxSide == 6             \* the largest width and height of a frame given to resize_to_square
MaxFlagMsgs == 3         \* inbound messages the clients send while the detection-flag model runs
MaxMsgs == 2             \* inbound messages the clients send while the message model runs

Conns == 1..NumConns
LoopIds == 1..NumConns   \* every _stream_loop task is created by one connect
None == 0

\* camera_wait_count % 10 == 1 (websocket_service.py:132)
WaitPeriod == 10

VARIABLES
    active_connections,  \* WebSocketManager.active_connections
    is_streaming,        \* WebSocketManager.is_streaming
    stream_task,         \* WebSocketManager.stream_task (a loop id, or None)
    ep,                  \* position of websocket_endpoint for each websocket
    broken,              \* websockets whose transport fails every send
    loop,                \* the _stream_loop tasks, by id
    stops,               \* the stop_streaming tasks, by the websocket whose disconnect created them
    ready,               \* the event loop's queue of tasks ready to run (first in, first out)
    cam_frame,           \* frame number camera_service.get_current_frame() returns (None: no frame)
    since_waiting        \* (history) pacing delays of 0.1 s that have ended since the last
                         \* "waiting" broadcast began, counted up to WaitPeriod and only
                         \* while no frame is available (WaitPeriod once there is one)

streamVars == <<active_connections, is_streaming, stream_task, ep, broken, loop, stops, ready,
                cam_frame, since_waiting>>

VARIABLES
    is_running,          \* CameraService.is_running
    capture_thread,      \* CameraService.capture_thread (a thread id, or None)
    thr,                 \* the _capture_loop threads, by id
    frame_lock,          \* CameraService.frame_lock: None (free) or its holder
    current_frame,       \* CameraService.current_frame: the pixels of the slot, or NoFrame
    frame_count,         \* CameraService.frame_count
    last_capture_time,   \* CameraService.last_capture_time (the frame it was taken for)
    dev_next,            \* frames the device has delivered so far
    caller,              \* position of the thread that calls start_capture / stop_capture
    rd,                  \* a thread that calls get_current_frame
    published,           \* (history) the frames whose publication is complete
    stamped              \* (history) the pairs <<device frame, frame_count drawn on it>>

camVars == <<is_running, capture_thread, thr, frame_lock, current_frame, frame_count,
             last_capture_time, dev_next, caller, rd, published, stamped>>

VARIABLES
    det_pc,              \* "input": postprocess_detections not yet called; "done": it has returned
    det_cands,           \* the candidates of the model output (predictions[0]), in order
    det_size,            \* original_size: <<original_width, original_height>>
    det_out              \* the list postprocess_detections returned

detVars == <<det_pc, det_cands, det_size, det_out>>

VARIABLES
    hs,                  \* for each websocket, the handle_message call of its endpoint
    outbox,              \* (history) for each websocket, the texts send_personal_message has sent
                         \* to it since its handler was called
    detection_enabled,   \* CameraService.detection_enabled
    defect_detector,     \* CameraService.defect_detector is not None
    received,            \* inbound messages and HTTP capture requests received so far
    http_result          \* what the HTTP capture route returned last

msgVars == <<hs, outbox, detection_enabled, defect_detector, received, http_result>>

VARIABLES
    sq_pc,               \* "input": resize_to_square not yet called; "done": it has returned
    sq_frame,            \* frame.shape of its argument: <<w, h>>
    sq_size,             \* its argument size
    sq_out               \* what it returned

squareVars == <<sq_pc, sq_frame, sq_size, sq_out>>

VARIABLES
    boot_pc,             \* where the startup part of lifespan is
    device,              \* what the imaging device does when initialize uses it
    initialize_result    \* how the await of CameraService.initialize ended

startupVars == <<boot_pc, device, initialize_result>>

auxVars == <<squareVars, startupVars>>

vars == <<streamVars, camVars, detVars, auxVars, msgVars>>


\* ------------------------------------------------------------ camera state

NoFrame == <<>>                       \* current_frame is None
NoThread == [pc |-> "none", frame |-> NoFrame, count |-> 0]
NoInfo == <<>>                        \* get_frame_info not called
ReaderId == -1                        \* the holder id of the get_current_frame caller
Threads == 1..MaxThreads

\* CameraService.__init__
CameraIdle ==
    /\ is_running = FALSE
    /\ capture_thread = None
    /\ thr = [t \in Threads |-> NoThread]
    /\ frame_lock = None
    /\ current_frame = NoFrame
    /\ frame_count = 0
    /\ last_capture_time = 0
    /\ dev_next = 0
    /\ caller = "idle"
    /\ rd = [pc |-> "idle", copy |-> NoFrame, result |-> NoFrame,
             prev |-> NoFrame, pub_at_call |-> {}, info |-> NoInfo]
    /\ published = {}
    /\ stamped = {}

\* no resize_to_square call is modelled
NoSquare == [region |-> <<>>, shape |-> <<>>]
SquareIdle ==
    /\ sq_pc = "idle"
    /\ sq_frame = <<0, 0>>
    /\ sq_size = 0
    /\ sq_out = NoSquare

\* the startup part of lifespan is over and the device was usable
StartupIdle ==
    /\ boot_pc = "started"
    /\ device = [opened |-> TRUE, ret |-> TRUE, raises |-> "nothing"]
    /\ initialize_result = "True"

AuxIdle == SquareIdle /\ StartupIdle

\* no postprocess_detections call is modelled
DetectIdle ==
    /\ det_pc = "idle"
    /\ det_cands = <<>>
    /\ det_size = <<0, 0>>
    /\ det_out = <<>>

\* no inbound message is modelled
NoRequest == [type |-> "none", arg |-> 0]
NoHandler == [pc |-> "idle", req |-> NoRequest]
NoHttpResult == [status |-> 0, detection_results |-> "None"]
MessagesIdle ==
    /\ hs = [c \in Conns |-> NoHandler]
    /\ outbox = [c \in Conns |-> <<>>]
    /\ detection_enabled = TRUE
    /\ defect_detector = FALSE
    /\ received = 0
    /\ http_result = NoHttpResult

\* ------------------------------------------------------------ stream model
\* One event loop runs the endpoint tasks, the _stream_loop tasks and the
\* stop_streaming tasks.  The task at the head of `ready` runs until its next
\* await; there it either gives up the event loop (the awaited operation is not
\* complete) or goes on at once (it is).  A task that gave up the event loop is
\* appended to `ready` when what it awaits completes.  asyncio.create_task
\* appends the new task to `ready`.

EpTask(c) == <<"ep", c>>
LoopTask(l) == <<"loop", l>>
StopTask(s) == <<"stop", s>>

Running(t) == ready # <<>> /\ Head(ready) = t
InReady(t) == \E i \in DOMAIN ready : ready[i] = t

NoLoop == [pc |-> "none", cancel |-> FALSE, cur |-> None, to_visit |-> {},
           disconnected |-> {}, payload |-> None, sent |-> {}, wait |-> 0]

NoStop == [pc |-> "none", target |-> None]

\* the loop ids already handed out
Created == {l \in LoopIds : loop[l].pc # "none"}

\* a task that has been created and has not finished
Alive(l) == l # None /\ loop[l].pc \notin {"none", "done"}

\* The "video_frame" message of frame n, and the "camera_status"/"waiting" message.
VideoFrame(n) == [type |-> "video_frame", data |-> n]
Waiting == [type |-> "camera_status", data |-> None]

InitStream ==
    /\ active_connections = {}
    /\ is_streaming = FALSE
    /\ stream_task = None
    /\ ep = [c \in Conns |-> "new"]
    /\ broken = {}
    /\ loop = [l \in LoopIds |-> NoLoop]
    /\ stops = [c \in Conns |-> NoStop]
    /\ ready = <<>>
    /\ cam_frame \in {None, 1}
    /\ since_waiting = WaitPeriod
    /\ CameraIdle
    /\ DetectIdle
    /\ MessagesIdle
    /\ AuxIdle

\* websocket.send_text(...) on c returns normally
SendOk(c) == ep[c] \notin {"closing", "closed"} /\ c \notin broken

\* ---- events outside the event loop

\* (mutant) connect adds the websocket to the registry before it awaits accept
Arrive_RegistersFirst(c) ==
    /\ ep[c] = "new"
    /\ ep' = [ep EXCEPT ![c] = "accept"]
    /\ active_connections' = active_connections \cup {c}
    /\ ready' = Append(ready, EpTask(c))
    /\ UNCHANGED <<is_streaming, stream_task, broken, loop, stops, cam_frame, since_waiting, camVars, detVars, auxVars, msgVars>>

\* a client connects: the server starts websocket_endpoint, which calls connect
\* and awaits websocket.accept()
Arrive(c) ==
    /\ ep[c] = "new"
    /\ ep' = [ep EXCEPT ![c] = "accept"]
    /\ ready' = Append(ready, EpTask(c))
    /\ UNCHANGED <<active_connections, is_streaming, stream_task, broken, loop, stops, cam_frame, since_waiting, camVars, detVars, auxVars, msgVars>>

\* the send an endpoint or a loop task awaits completes
SendCompletes(t) ==
    /\ ~InReady(t)
    /\ \/ \E c \in Conns : t = EpTask(c) /\ ep[c] = "welcome"
       \/ \E l \in LoopIds : t = LoopTask(l) /\ loop[l].pc = "send"
    /\ ready' = Append(ready, t)
    /\ UNCHANGED <<active_connections, is_streaming, stream_task, ep, broken, loop, stops, cam_frame, since_waiting, camVars, detVars, auxVars, msgVars>>

\* the timer of asyncio.sleep(0.1) fires
SleepEnds(l) ==
    /\ loop[l].pc = "sleep"
    /\ ~InReady(LoopTask(l))
    /\ ready' = Append(ready, LoopTask(l))
    /\ since_waiting' = IF since_waiting < WaitPeriod /\ cam_frame = None THEN since_waiting + 1 ELSE WaitPeriod
    /\ UNCHANGED <<active_connections, is_streaming, stream_task, ep, broken, loop, stops, cam_frame, camVars, detVars, auxVars, msgVars>>

\* the transport of c fails: from now on every send to c raises
Break(c) ==
    /\ ep[c] \in {"welcome", "open"}
    /\ c \notin broken
    /\ broken' = broken \cup {c}
    /\ UNCHANGED <<active_connections, is_streaming, stream_task, ep, loop, stops, ready, cam_frame, since_waiting, camVars, detVars, auxVars, msgVars>>

\* the client of c closes (or its failed transport is noticed): receive_text,
\* which the endpoint awaits, raises WebSocketDisconnect
ClientGone(c) ==
    /\ ep[c] = "open"
    /\ ep' = [ep EXCEPT ![c] = "closing"]
    /\ broken' = broken \ {c}
    /\ ready' = Append(ready, EpTask(c))
    /\ UNCHANGED <<active_connections, is_streaming, stream_task, loop, stops, cam_frame, since_waiting, camVars, detVars, auxVars, msgVars>>

\* the acquisition thread publishes the next frame
CameraPublish ==
    /\ cam_frame < MaxFrames
    /\ cam_frame' = cam_frame + 1
    /\ since_waiting' = WaitPeriod
    /\ UNCHANGED <<active_connections, is_streaming, stream_task, ep, broken, loop, stops, ready, camVars, detVars, auxVars, msgVars>>

\* ---- the tasks

\* connect, from the return of accept to the await of the welcome message
ConnectAccept(c) ==
    /\ Running(EpTask(c))
    /\ ep[c] = "accept"
    /\ ep' = [ep EXCEPT ![c] = "welcome"]
    /\ active_connections' = active_connections \cup {c}
    /\ ready' \in {ready, Tail(ready)}
    /\ UNCHANGED <<is_streaming, stream_task, broken, loop, stops, cam_frame, since_waiting, camVars, detVars, auxVars, msgVars>>

\* connect, after the welcome message was sent (or its failure swallowed), to
\* the endpoint's await of receive_text.  start_streaming has no await inside.
ConnectWelcome(c) ==
    /\ Running(EpTask(c))
    /\ ep[c] = "welcome"
    /\ ep' = [ep EXCEPT ![c] = "open"]
    /\ IF is_streaming
       THEN /\ ready' = Tail(ready)
            /\ UNCHANGED <<is_streaming, stream_task, loop>>
       ELSE LET l == Cardinality(Created) + 1 IN
            /\ is_streaming' = TRUE
            /\ stream_task' = l
            /\ loop' = [loop EXCEPT ![l] = [NoLoop EXCEPT !.pc = "start"]]
            /\ ready' = Append(Tail(ready), LoopTask(l))
    /\ UNCHANGED <<active_connections, broken, stops, cam_frame, since_waiting, camVars, detVars, auxVars, msgVars>>

\* websocket_endpoint catches WebSocketDisconnect and calls disconnect
Disconnect(c) ==
    /\ Running(EpTask(c))
    /\ ep[c] = "closing"
    /\ ep' = [ep EXCEPT ![c] = "closed"]
    /\ active_connections' = active_connections \ {c}
    /\ IF active_connections' = {}
       THEN /\ stops' = [stops EXCEPT ![c] = [pc |-> "scheduled", target |-> None]]
            /\ ready' = Append(Tail(ready), StopTask(c))
       ELSE /\ stops' = stops
            /\ ready' = Tail(ready)
    /\ UNCHANGED <<is_streaming, stream_task, broken, loop, cam_frame, since_waiting, camVars, detVars, auxVars, msgVars>>

\* (mutant) stop_streaming awaits the loop task without cancelling it
StopRun_NoCancel(s) ==
    /\ Running(StopTask(s))
    /\ stops[s].pc = "scheduled"
    /\ is_streaming' = FALSE
    /\ stops' = [stops EXCEPT ![s] =
                    IF is_streaming /\ stream_task # None /\ loop[stream_task].pc # "done"
                    THEN [pc |-> "awaiting", target |-> stream_task]
                    ELSE NoStop]
    /\ ready' = Tail(ready)
    /\ UNCHANGED <<active_connections, stream_task, ep, broken, loop, cam_frame, since_waiting, camVars, detVars, auxVars, msgVars>>

\* stop_streaming, to its await of the cancelled task or to its return
StopRun(s) ==
    /\ Running(StopTask(s))
    /\ stops[s].pc = "scheduled"
    /\ IF is_streaming /\ stream_task # None /\ loop[stream_task].pc # "done"
       THEN /\ is_streaming' = FALSE
            /\ loop' = [loop EXCEPT ![stream_task].cancel = TRUE]
            /\ stops' = [stops EXCEPT ![s] = [pc |-> "awaiting", target |-> stream_task]]
            /\ ready' = IF InReady(LoopTask(stream_task))
                        THEN Tail(ready)
                        ELSE Append(Tail(ready), LoopTask(stream_task))
       ELSE /\ is_streaming' = FALSE
            /\ stops' = [stops EXCEPT ![s] = NoStop]
            /\ ready' = Tail(ready)
            /\ UNCHANGED loop
    /\ UNCHANGED <<active_connections, stream_task, ep, broken, cam_frame, since_waiting, camVars, detVars, auxVars, msgVars>>

\* stop_streaming resumes from "await self.stream_task" and returns
StopJoin(s) ==
    /\ Running(StopTask(s))
    /\ stops[s].pc = "awaiting"
    /\ stops' = [stops EXCEPT ![s] = NoStop]
    /\ ready' = Tail(ready)
    /\ UNCHANGED <<active_connections, is_streaming, stream_task, ep, broken, loop, cam_frame, since_waiting, camVars, detVars, auxVars, msgVars>>

\* the stop_streaming tasks that await loop task l, in the order they are woken
Joiners(l) ==
    LET js == {s \in Conns : stops[s].pc = "awaiting" /\ stops[s].target = l}
    IN IF js = {} THEN <<>> ELSE <<StopTask(CHOOSE s \in js : TRUE)>>

\* loop task l ends: it leaves the event loop and whoever awaits it is woken
LoopEnds(l) ==
    /\ loop' = [loop EXCEPT ![l] = [NoLoop EXCEPT !.pc = "done"]]
    /\ ready' = Tail(ready) \o Joiners(l)

\* broadcast, from its entry to its first await: the registry is copied and the
\* first send is started
BeginBroadcast(l, message, wait) ==
    /\ \E c \in active_connections :
        loop' = [loop EXCEPT ![l] = [pc |-> "send", cancel |-> FALSE, cur |-> c,
                                     to_visit |-> active_connections \ {c},
                                     disconnected |-> {}, payload |-> message,
                                     sent |-> {}, wait |-> wait]]
    /\ ready' \in {ready, Tail(ready)}
    /\ since_waiting' = IF message = Waiting THEN 0 ELSE since_waiting

\* _stream_loop from the task's start, or from asyncio.sleep, to its next await
LoopIter(l) ==
    /\ Running(LoopTask(l))
    /\ loop[l].pc \in {"start", "sleep"}
    /\ IF loop[l].cancel \/ ~(is_streaming /\ active_connections # {})
       THEN LoopEnds(l) /\ UNCHANGED since_waiting
       ELSE IF cam_frame # None
       THEN BeginBroadcast(l, VideoFrame(cam_frame), 0)
       ELSE LET w == (loop[l].wait + 1) % WaitPeriod IN
            IF w = 1
            THEN BeginBroadcast(l, Waiting, w)
            ELSE /\ loop' = [loop EXCEPT ![l] = [NoLoop EXCEPT !.pc = "sleep", !.wait = w]]
                 /\ ready' = Tail(ready)
                 /\ UNCHANGED since_waiting
    /\ UNCHANGED <<active_connections, is_streaming, stream_task, ep, broken, stops, cam_frame, camVars, detVars, auxVars, msgVars>>

\* (mutant) the message is rebuilt from the camera's current frame for every websocket
SendPayload_PerSend(l) ==
    IF loop[l].payload.type = "video_frame" THEN VideoFrame(cam_frame) ELSE loop[l].payload

\* the text a send of the pass carries: json.dumps(message), made once per pass
SendPayload(l) == loop[l].payload

\* (mutant) a websocket whose send failed is discarded inside the for loop
RegistryMidPass_DiscardNow(reg, c, ok) == IF ok THEN reg ELSE reg \ {c}

\* the registry after a send of the pass that is not its last
RegistryMidPass(reg, c, ok) == reg

\* broadcast resumes from "await websocket.send_text" on loop[l].cur
LoopSendDone(l) ==
    /\ Running(LoopTask(l))
    /\ loop[l].pc = "send"
    /\ IF loop[l].cancel
       THEN /\ LoopEnds(l)
            /\ UNCHANGED active_connections
       ELSE LET c == loop[l].cur
                ok == SendOk(c)
                disc == IF ok THEN loop[l].disconnected ELSE loop[l].disconnected \cup {c}
                sent == IF ok THEN loop[l].sent \cup {SendPayload(l)} ELSE loop[l].sent
            IN IF loop[l].to_visit # {}
               THEN /\ \E n \in loop[l].to_visit :
                         loop' = [loop EXCEPT ![l].cur = n,
                                              ![l].to_visit = loop[l].to_visit \ {n},
                                              ![l].disconnected = disc,
                                              ![l].sent = sent]
                    /\ active_connections' = RegistryMidPass(active_connections, c, ok)
                    /\ ready' \in {ready, Tail(ready)}
               ELSE /\ loop' = [loop EXCEPT ![l] = [NoLoop EXCEPT !.pc = "sleep",
                                                                  !.wait = loop[l].wait,
                                                                  !.sent = sent]]
                    /\ active_connections' = active_connections \ disc
                    /\ ready' = Tail(ready)
    /\ UNCHANGED <<is_streaming, stream_task, ep, broken, stops, cam_frame, since_waiting, camVars, detVars, auxVars, msgVars>>

NextStream ==
    \/ \E c \in Conns : Arrive(c)
    \/ \E c \in Conns : SendCompletes(EpTask(c))
    \/ \E l \in LoopIds : SendCompletes(LoopTask(l))
    \/ \E l \in LoopIds : SleepEnds(l)
    \/ \E c \in Conns : Break(c)
    \/ \E c \in Conns : ClientGone(c)
    \/ CameraPublish
    \/ \E c \in Conns : ConnectAccept(c)
    \/ \E c \in Conns : ConnectWelcome(c)
    \/ \E c \in Conns : Disconnect(c)
    \/ \E s \in Conns : StopRun(s)
    \/ \E s \in Conns : StopJoin(s)
    \/ \E l \in LoopIds : LoopIter(l)
    \/ \E l \in LoopIds : LoopSendDone(l)

SpecStream == InitStream /\ [][NextStream]_vars

\* the stream model while the camera publishes nothing new: every pass finds
\* the frame, or the lack of one, that the first pass found
NextStill ==
    \/ \E c \in Conns : Arrive(c)
    \/ \E c \in Conns : SendCompletes(EpTask(c))
    \/ \E l \in LoopIds : SendCompletes(LoopTask(l))
    \/ \E l \in LoopIds : SleepEnds(l)
    \/ \E c \in Conns : Break(c)
    \/ \E c \in Conns : ClientGone(c)
    \/ \E c \in Conns : ConnectAccept(c)
    \/ \E c \in Conns : ConnectWelcome(c)
    \/ \E c \in Conns : Disconnect(c)
    \/ \E s \in Conns : StopRun(s)
    \/ \E s \in Conns : StopJoin(s)
    \/ \E l \in LoopIds : LoopIter(l)
    \/ \E l \in LoopIds : LoopSendDone(l)

SpecStill == InitStream /\ [][NextStill]_vars

\* The event loop runs every task that is ready, the transports complete the
\* sends they were given and the timers of asyncio.sleep fire.  Clients
\* connecting, closing and failing, and the camera, are under no obligation.
FairStream ==
    /\ \A c \in Conns :
          /\ WF_vars(ConnectAccept(c))
          /\ WF_vars(ConnectWelcome(c))
          /\ WF_vars(Disconnect(c))
          /\ WF_vars(SendCompletes(EpTask(c)))
          /\ WF_vars(StopRun(c))
          /\ WF_vars(StopJoin(c))
    /\ \A l \in LoopIds :
          /\ WF_vars(LoopIter(l))
          /\ WF_vars(LoopSendDone(l))
          /\ WF_vars(SendCompletes(LoopTask(l)))
          /\ WF_vars(SleepEnds(l))

SpecStreamFair == InitStream /\ [][NextStream]_vars /\ FairStream

\* _stream_loop from the task's start, or from asyncio.sleep, into an iteration
\* whose frame path (resize_to_square, get_frame_info) raises: the exception
\* leaves the while loop, "except Exception" logs it and the task returns
LoopRaises(l) ==
    /\ Running(LoopTask(l))
    /\ loop[l].pc \in {"start", "sleep"}
    /\ ~loop[l].cancel
    /\ is_streaming /\ active_connections # {}
    /\ cam_frame # None
    /\ LoopEnds(l)
    /\ UNCHANGED <<active_connections, is_streaming, stream_task, ep, broken, stops, cam_frame, since_waiting, camVars, detVars, auxVars, msgVars>>

\* the stream model with iterations that raise
NextStreamErr ==
    \/ \E c \in Conns : Arrive(c)
    \/ \E c \in Conns : SendCompletes(EpTask(c))
    \/ \E l \in LoopIds : SendCompletes(LoopTask(l))
    \/ \E l \in LoopIds : SleepEnds(l)
    \/ \E c \in Conns : Break(c)
    \/ \E c \in Conns : ClientGone(c)
    \/ CameraPublish
    \/ \E c \in Conns : ConnectAccept(c)
    \/ \E c \in Conns : ConnectWelcome(c)
    \/ \E c \in Conns : Disconnect(c)
    \/ \E s \in Conns : StopRun(s)
    \/ \E s \in Conns : StopJoin(s)
    \/ \E l \in LoopIds : LoopIter(l)
    \/ \E l \in LoopIds : LoopSendDone(l)
    \/ \E l \in LoopIds : LoopRaises(l)

SpecStreamErr == InitStream /\ [][NextStreamErr]_vars

\* ----------------------------------------------------------- message model
\* The endpoints of the open websockets receive messages and call
\* handle_message, on the same event loop as the _stream_loop task.  A flag of
\* a message or of a response is 1 (true) or 0 (false).  The handlers and the
\* _stream_loop task share the event loop and nothing else: SpecMessages runs
\* the handlers on every kind of message while the loop task sleeps, and
\* SpecCapture runs capture requests together with the loop task.

\* the texts a client sends.  A JSON object is [type, arg] with arg the
\* "timestamp" of a ping, "enable_detection" of a capture_image, "enabled" of a
\* set_detection; "unknown" is an object of a type no handler exists for;
\* "not_object" is a JSON text that is not an object (a list, a number, null);
\* "not_json" is a text that is not JSON
IgnoredKinds == {"unknown", "not_object", "not_json"}
Inbound ==
    { [type |-> "ping", arg |-> t] : t \in {1, 2} }
    \cup { [type |-> ty, arg |-> b] : ty \in {"capture_image", "set_detection"}, b \in {0, 1} }
    \cup { [type |-> ty, arg |-> 0] : ty \in {"get_status"} \cup IgnoredKinds }

\* json.loads(message): the type of the value it returns, or the exception it
\* raises
JsonLoads(message) ==
    IF message.type = "not_json" THEN "JSONDecodeError"
    ELSE IF message.type = "not_object" THEN "list"
    ELSE "dict"

\* what the first two statements of handle_message raise: json.loads, and
\* data.get("type") on a value that has no get
DecodeRaises(message) ==
    IF JsonLoads(message) = "JSONDecodeError" THEN "JSONDecodeError"
    ELSE IF JsonLoads(message) # "dict" THEN "AttributeError"
    ELSE "nothing"

\* (mutant) handle_message with "except json.JSONDecodeError" alone
Caught_JsonOnly(exception) == exception = "JSONDecodeError"

\* the except clauses of handle_message: json.JSONDecodeError, then Exception
Caught(exception) ==
    \/ exception = "JSONDecodeError"
    \/ exception \in {"AttributeError", "TypeError", "KeyError"}

\* the dictionary capture_image returns: detection_results is "None", "error"
\* ({"error": str(e)}) or "detections" (the dictionary that holds the detections
\* and the annotated image, an ndarray)
CaptureResult(success, message, results) ==
    [success |-> success, message |-> message, detection_results |-> results]

\* capture_image(filename, apply_detection), given what the environment does:
\* detect_ok (the detector does not raise) and write ("ok": imwrite returns
\* True, "fail": it returns False, "raise": the body raises)
CaptureImage(apply_detection, frame, detect_ok, write) ==
    IF frame = None THEN CaptureResult(0, "No frame available", "None")
    ELSE IF write = "raise" THEN CaptureResult(0, "Capture error", "None")
    ELSE IF write = "fail" THEN CaptureResult(0, "Failed to save image", "None")
    ELSE CaptureResult(1, "Image saved",
            IF apply_detection /\ detection_enabled /\ defect_detector
            THEN (IF detect_ok THEN "detections" ELSE "error")
            ELSE IF apply_detection /\ detection_enabled THEN "detections"
            ELSE "None")

\* (mutant) capture_image does not look at detection_enabled
RunsInference_IgnoresFlag(apply_detection, frame) ==
    frame # None /\ apply_detection /\ defect_detector

\* capture_image reaches detect_defects_from_frame
RunsInference(apply_detection, frame) ==
    frame # None /\ apply_detection /\ detection_enabled /\ defect_detector

\* the response dictionaries of the handlers
CaptureResponse(result) ==
    [type |-> "capture_response", success |-> result.success, message |-> result.message,
     data |-> 0, detection_results |-> result.detection_results]
\* (mutant) the pong carries the server's clock in place of the client's timestamp
Pong_ServerTime(timestamp) ==
    [type |-> "pong", success |-> -1, message |-> "", data |-> 0,
     detection_results |-> "None"]

\* {"type": "pong", "client_timestamp": data.get("timestamp"), ...}
Pong(timestamp) ==
    [type |-> "pong", success |-> -1, message |-> "", data |-> timestamp,
     detection_results |-> "None"]
StatusResponse ==
    [type |-> "status_response", success |-> -1, message |-> "",
     data |-> Cardinality(active_connections), detection_results |-> "None"]

\* (mutant) the response reports the flag as it was before the request
DetectionSettingResponse_Previous(enabled) ==
    [type |-> "detection_setting_response", success |-> 1,
     message |-> "Defect detection set", data |-> IF detection_enabled THEN 1 ELSE 0,
     detection_results |-> "None"]

\* {"type": "detection_setting_response", "enabled": enabled, ...}
DetectionSettingResponse(enabled) ==
    [type |-> "detection_setting_response", success |-> 1,
     message |-> "Defect detection set", data |-> enabled, detection_results |-> "None"]

\* json.dumps(message) returns: it raises TypeError for a dictionary that holds
\* an ndarray
JsonDumpsReturns(message) == message.detection_results # "detections"

MessagesInit ==
    /\ active_connections = Conns
    /\ is_streaming = TRUE
    /\ stream_task = 1
    /\ ep = [c \in Conns |-> "open"]
    /\ broken = {}
    /\ cam_frame \in {None, 1}
    /\ loop = [l \in LoopIds |->
                 IF l = 1
                 THEN [NoLoop EXCEPT !.pc = "sleep",
                                     !.wait = IF cam_frame = None THEN 1 ELSE 0,
                                     !.sent = {IF cam_frame = None THEN Waiting
                                               ELSE VideoFrame(cam_frame)}]
                 ELSE NoLoop]
    /\ stops = [c \in Conns |-> NoStop]
    /\ ready = <<>>
    /\ since_waiting = IF cam_frame = None THEN 0 ELSE WaitPeriod
    /\ CameraIdle
    /\ DetectIdle
    /\ AuxIdle
    /\ hs = [c \in Conns |-> NoHandler]
    /\ outbox = [c \in Conns |-> <<>>]
    /\ detection_enabled = TRUE
    /\ defect_detector \in BOOLEAN
    /\ received = 0
    /\ http_result = NoHttpResult

\* receive_text, which the endpoint of c awaits, returns a message; the
\* clients send at most max_msgs messages
ReceiveUpTo(c, message, max_msgs) ==
    /\ ep[c] = "open"
    /\ hs[c].pc = "idle"
    /\ received < max_msgs
    /\ received' = received + 1
    /\ hs' = [hs EXCEPT ![c] = [pc |-> "received", req |-> message]]
    /\ ready' = Append(ready, EpTask(c))
    /\ UNCHANGED <<active_connections, is_streaming, stream_task, ep, broken, loop, stops,
                   cam_frame, since_waiting, outbox, detection_enabled, defect_detector, http_result,
                   camVars, detVars, auxVars>>

Receive(c, message) == ReceiveUpTo(c, message, MaxMsgs)

\* the send_text a handler awaits completes
ReplySent(c) ==
    /\ hs[c].pc = "sending"
    /\ ~InReady(EpTask(c))
    /\ ready' = Append(ready, EpTask(c))
    /\ UNCHANGED <<active_connections, is_streaming, stream_task, ep, broken, loop, stops,
                   cam_frame, since_waiting, msgVars, camVars, detVars, auxVars>>

\* (mutant) a response that carries a detection error goes to every registered
\* websocket
Recipients_ErrorToAll(c, response) ==
    IF response.detection_results = "error" THEN active_connections \cup {c} ELSE {c}

\* the websockets send_personal_message(response, websocket) sends to
Recipients(c, response) == {c}

\* send_personal_message(response, websocket) and what follows it, to the next
\* await: the text is sent, or json.dumps raises, the exception is logged and
\* the handler returns to the endpoint's receive_text
SendPersonalMessage(c, response) ==
    IF JsonDumpsReturns(response)
    THEN /\ outbox' = [d \in Conns |-> IF d \in Recipients(c, response)
                                       THEN Append(outbox[d], response)
                                       ELSE outbox[d]]
         /\ hs' = [hs EXCEPT ![c].pc = "sending"]
         /\ ready' \in {ready, Tail(ready)}
    ELSE /\ outbox' = outbox
         /\ hs' = [hs EXCEPT ![c] = NoHandler]
         /\ ready' = Tail(ready)

\* an exception leaves handle_message: the endpoint's "except Exception" calls
\* disconnect
Escapes(message) == DecodeRaises(message) # "nothing" /\ ~Caught(DecodeRaises(message))

\* handle_message, from the return of receive_text to the handler's next await
\* (or, for a capture that runs the detector, to the call of the detector); a
\* text that does not decode to an object, or an object of unknown type, is
\* logged and the handler returns
HandleMessage(c) ==
    /\ Running(EpTask(c))
    /\ hs[c].pc = "received"
    /\ LET req == hs[c].req IN
       CASE req.type = "ping" ->
              /\ SendPersonalMessage(c, Pong(req.arg))
              /\ UNCHANGED detection_enabled
         [] req.type = "get_status" ->
              /\ SendPersonalMessage(c, StatusResponse)
              /\ UNCHANGED detection_enabled
         [] req.type = "set_detection" ->
              /\ detection_enabled' = (req.arg = 1)
              /\ SendPersonalMessage(c, DetectionSettingResponse(req.arg))
         [] req.type = "capture_image" ->
              LET apply == req.arg = 1 /\ defect_detector IN
              /\ UNCHANGED detection_enabled
              /\ IF RunsInference(apply, cam_frame)
                 THEN /\ hs' = [hs EXCEPT ![c].pc = "inferring"]
                      /\ UNCHANGED <<outbox, ready>>
                 ELSE \E write \in {"ok", "fail", "raise"} :
                        SendPersonalMessage(c,
                            CaptureResponse(CaptureImage(apply, cam_frame, TRUE, write)))
         [] OTHER ->
              /\ hs' = [hs EXCEPT ![c] = NoHandler]
              /\ ready' = IF Escapes(req) THEN ready ELSE Tail(ready)
              /\ UNCHANGED <<outbox, detection_enabled>>
    /\ ep' = IF Escapes(hs[c].req) THEN [ep EXCEPT ![c] = "closing"] ELSE ep
    /\ UNCHANGED <<active_connections, is_streaming, stream_task, broken, loop, stops,
                   cam_frame, since_waiting, defect_detector, received, http_result, camVars, detVars, auxVars>>

\* detect_defects_from_frame returns or raises, capture_image goes on to its
\* return, and the handler sends the response
CaptureFinish(c) ==
    /\ Running(EpTask(c))
    /\ hs[c].pc = "inferring"
    /\ \E detect_ok \in BOOLEAN, write \in {"ok", "fail", "raise"} :
         SendPersonalMessage(c, CaptureResponse(CaptureImage(TRUE, cam_frame, detect_ok, write)))
    /\ UNCHANGED <<active_connections, is_streaming, stream_task, ep, broken, loop, stops,
                   cam_frame, since_waiting, detection_enabled, defect_detector, received, http_result,
                   camVars, detVars, auxVars>>

\* the handler resumes from its send and returns; the endpoint awaits receive_text
HandleReturn(c) ==
    /\ Running(EpTask(c))
    /\ hs[c].pc = "sending"
    /\ hs' = [hs EXCEPT ![c] = NoHandler]
    /\ outbox' = [outbox EXCEPT ![c] = <<>>]
    /\ ready' = Tail(ready)
    /\ UNCHANGED <<active_connections, is_streaming, stream_task, ep, broken, loop, stops,
                   cam_frame, since_waiting, detection_enabled, defect_detector, received,
                   http_result, camVars, detVars, auxVars>>

\* the task that serves a POST /camera/capture request
HttpTask == <<"http", 0>>

\* what the route returns for the dictionary capture_with_detection_analysis
\* returned: the detection results with status 200, or HTTPException(500)
HttpCaptureRoute(result) ==
    IF result.success = 1
    THEN [status |-> 200, detection_results |-> result.detection_results]
    ELSE [status |-> 500, detection_results |-> "None"]

\* a POST /camera/capture request arrives
HttpArrive ==
    /\ received < MaxMsgs
    /\ ~InReady(HttpTask)
    /\ received' = received + 1
    /\ ready' = Append(ready, HttpTask)
    /\ UNCHANGED <<active_connections, is_streaming, stream_task, ep, broken, loop, stops,
                   cam_frame, since_waiting, hs, outbox, detection_enabled, defect_detector,
                   http_result, camVars, detVars, auxVars>>

\* the route capture_image runs: capture_with_detection_analysis calls
\* capture_image(filename, apply_detection=True), in the coroutine
HttpCapture ==
    /\ Running(HttpTask)
    /\ \E detect_ok \in BOOLEAN, write \in {"ok", "fail", "raise"} :
         http_result' = HttpCaptureRoute(CaptureImage(TRUE, cam_frame, detect_ok, write))
    /\ ready' = Tail(ready)
    /\ UNCHANGED <<active_connections, is_streaming, stream_task, ep, broken, loop, stops,
                   cam_frame, since_waiting, hs, outbox, detection_enabled, defect_detector,
                   received, camVars, detVars, auxVars>>

NextMessages ==
    \/ \E c \in Conns, message \in Inbound : Receive(c, message)
    \/ \E c \in Conns : ReplySent(c)
    \/ \E c \in Conns : HandleMessage(c)
    \/ \E c \in Conns : CaptureFinish(c)
    \/ \E c \in Conns : HandleReturn(c)
    \/ HttpArrive
    \/ HttpCapture

SpecMessages == MessagesInit /\ [][NextMessages]_vars

\* the steps of the tasks other than the endpoint of c
OtherTaskSteps(c) ==
    \/ \E l \in LoopIds : LoopIter(l)
    \/ \E l \in LoopIds : LoopSendDone(l)
    \/ \E d \in Conns \ {c} : HandleMessage(d)
    \/ \E d \in Conns \ {c} : CaptureFinish(d)
    \/ \E d \in Conns \ {c} : HandleReturn(d)

NextCapture ==
    \/ \E c \in Conns, message \in {m \in Inbound : m.type = "capture_image"} :
           Receive(c, message)
    \/ \E c \in Conns : ReplySent(c)
    \/ \E c \in Conns : HandleMessage(c)
    \/ \E c \in Conns : CaptureFinish(c)
    \/ \E c \in Conns : HandleReturn(c)
    \/ \E l \in LoopIds : SendCompletes(LoopTask(l))
    \/ \E l \in LoopIds : SleepEnds(l)
    \/ \E l \in LoopIds : LoopIter(l)
    \/ \E l \in LoopIds : LoopSendDone(l)

SpecCapture == MessagesInit /\ [][NextCapture]_vars

\* set_detection and capture_image messages from every websocket
NextFlag ==
    \/ \E c \in Conns,
          message \in {m \in Inbound : m.type \in {"set_detection", "capture_image"}} :
           ReceiveUpTo(c, message, MaxFlagMsgs)
    \/ \E c \in Conns : ReplySent(c)
    \/ \E c \in Conns : HandleMessage(c)
    \/ \E c \in Conns : CaptureFinish(c)
    \/ \E c \in Conns : HandleReturn(c)

SpecFlag == MessagesInit /\ [][NextFlag]_vars

\* the texts handle_message has no handler for, together with the loop task
NextIgnored ==
    \/ \E c \in Conns, message \in {m \in Inbound : m.type \in IgnoredKinds} :
           Receive(c, message)
    \/ \E c \in Conns : HandleMessage(c)
    \/ \E l \in LoopIds : SendCompletes(LoopTask(l))
    \/ \E l \in LoopIds : SleepEnds(l)
    \/ \E l \in LoopIds : LoopIter(l)
    \/ \E l \in LoopIds : LoopSendDone(l)

SpecIgnored == MessagesInit /\ [][NextIgnored]_vars

\* ------------------------------------------------------------ camera model
\* The caller of start_capture / stop_capture, the _capture_loop threads and a
\* thread calling get_current_frame run in parallel; every access to shared
\* state is one action.  A frame is two pixels, both carrying the number of the
\* device frame they come from, so that a mix of two frames is visible.  The
\* copies (frame.copy() into the slot, current_frame.copy() out of it) move one
\* pixel per action: they are atomic only as far as frame_lock makes them.

AliveThreads == {t \in Threads : thr[t].pc \notin {"none", "dead"}}
CreatedThreads == {t \in Threads : thr[t].pc # "none"}

\* (mutant) "with self.frame_lock" left out: nobody waits for the lock
LockFree_NoLock == TRUE

\* frame_lock can be acquired
LockFree == frame_lock = None

\* start_capture, as far as the camera service is concerned
StartCaptureStep ==
    /\ caller = "idle"
    /\ IF is_running
       THEN UNCHANGED <<is_running, capture_thread, thr>>
       ELSE /\ Cardinality(CreatedThreads) < MaxThreads
            /\ LET t == Cardinality(CreatedThreads) + 1 IN
               /\ is_running' = TRUE
               /\ capture_thread' = t
               /\ thr' = [thr EXCEPT ![t] = [NoThread EXCEPT !.pc = "top"]]
    /\ UNCHANGED <<frame_lock, current_frame, frame_count, last_capture_time,
                   dev_next, caller, rd, published, stamped>>

\* start_capture
StartCapture == StartCaptureStep /\ UNCHANGED <<streamVars, detVars, auxVars, msgVars>>

\* stop_capture, to its join
StopCapture ==
    /\ caller = "idle"
    /\ is_running' = FALSE
    /\ caller' = IF capture_thread # None THEN "joining" ELSE "idle"
    /\ UNCHANGED <<capture_thread, thr, frame_lock, current_frame, frame_count,
                   last_capture_time, dev_next, rd, published, stamped, streamVars, detVars, auxVars, msgVars>>

\* capture_thread.join(timeout=2.0) returns because the thread has ended
JoinReturns ==
    /\ caller = "joining"
    /\ thr[capture_thread].pc = "dead"
    /\ caller' = "idle"
    /\ UNCHANGED <<is_running, capture_thread, thr, frame_lock, current_frame, frame_count,
                   last_capture_time, dev_next, rd, published, stamped, streamVars, detVars, auxVars, msgVars>>

\* capture_thread.join(timeout=2.0) returns because 2 s have passed while the
\* thread is blocked in camera.read()
JoinTimesOut ==
    /\ caller = "joining"
    /\ thr[capture_thread].pc = "read"
    /\ caller' = "idle"
    /\ UNCHANGED <<is_running, capture_thread, thr, frame_lock, current_frame, frame_count,
                   last_capture_time, dev_next, rd, published, stamped, streamVars, detVars, auxVars, msgVars>>

\* _capture_loop: the while test
LoopTest(t) ==
    /\ thr[t].pc = "top"
    /\ thr' = [thr EXCEPT ![t].pc = IF is_running THEN "read" ELSE "dead"]
    /\ UNCHANGED <<is_running, capture_thread, frame_lock, current_frame, frame_count,
                   last_capture_time, dev_next, caller, rd, published, stamped, streamVars, detVars, auxVars, msgVars>>

\* camera.read() returns a frame, which is flipped; the device delivers at
\* most max_reads frames
ReadFrameUpTo(t, max_reads) ==
    /\ thr[t].pc = "read"
    /\ dev_next < max_reads
    /\ dev_next' = dev_next + 1
    /\ thr' = [thr EXCEPT ![t].pc = "count", ![t].frame = <<dev_next', dev_next'>>]
    /\ UNCHANGED <<is_running, capture_thread, frame_lock, current_frame, frame_count,
                   last_capture_time, caller, rd, published, stamped, streamVars, detVars, auxVars, msgVars>>

ReadFrame(t) == ReadFrameUpTo(t, MaxReads)

\* (mutant) a failed read ends the loop
AfterFailedRead_Exit == "dead"

\* where the cycle goes on after "if ret:" was false: the pacing sleep
AfterFailedRead == "sleep"

\* camera.read() returns ret = False: nothing is published
ReadFails(t) ==
    /\ thr[t].pc = "read"
    /\ thr' = [thr EXCEPT ![t].pc = AfterFailedRead]
    /\ UNCHANGED <<is_running, capture_thread, frame_lock, current_frame, frame_count,
                   last_capture_time, dev_next, caller, rd, published, stamped, streamVars, detVars, auxVars, msgVars>>

\* the cycle raises after the read (cv2.flip, the overlays): the exception is
\* logged and the thread sleeps 0.1 s
CycleRaises(t) ==
    /\ thr[t].pc = "count"
    /\ thr' = [thr EXCEPT ![t].pc = "backoff", ![t].frame = NoFrame]
    /\ UNCHANGED <<is_running, capture_thread, frame_lock, current_frame, frame_count,
                   last_capture_time, dev_next, caller, rd, published, stamped, streamVars, detVars, auxVars, msgVars>>

\* time.sleep(0.1) of the except branch is over
BackoffOver(t) ==
    /\ thr[t].pc = "backoff"
    /\ thr' = [thr EXCEPT ![t].pc = "top"]
    /\ UNCHANGED <<is_running, capture_thread, frame_lock, current_frame, frame_count,
                   last_capture_time, dev_next, caller, rd, published, stamped, streamVars, detVars, auxVars, msgVars>>

\* self.frame_count += 1, outside the lock: the read of the attribute ...
CountFrameLoad(t) ==
    /\ thr[t].pc = "count"
    /\ thr' = [thr EXCEPT ![t].pc = "store", ![t].count = frame_count]
    /\ UNCHANGED <<is_running, capture_thread, frame_lock, current_frame, frame_count,
                   last_capture_time, dev_next, caller, rd, published, stamped, streamVars, detVars, auxVars, msgVars>>

\* ... and the write of the sum, and the overlays drawn on the thread's own frame
CountFrameStore(t) ==
    /\ thr[t].pc = "store"
    /\ frame_count' = thr[t].count + 1
    /\ stamped' = stamped \cup {<<thr[t].frame[1], frame_count'>>}
    /\ thr' = [thr EXCEPT ![t].pc = "lock", ![t].count = 0]
    /\ UNCHANGED <<is_running, capture_thread, frame_lock, current_frame,
                   last_capture_time, dev_next, caller, rd, published, streamVars, detVars, auxVars, msgVars>>

\* with self.frame_lock (the loop's)
WriterLock(t) ==
    /\ thr[t].pc = "lock"
    /\ LockFree
    /\ frame_lock' = t
    /\ thr' = [thr EXCEPT ![t].pc = "write1"]
    /\ UNCHANGED <<is_running, capture_thread, current_frame, frame_count,
                   last_capture_time, dev_next, caller, rd, published, stamped, streamVars, detVars, auxVars, msgVars>>

\* self.current_frame = frame.copy(): the first pixel
WriteFirst(t) ==
    /\ thr[t].pc = "write1"
    /\ current_frame' = <<thr[t].frame[1],
                          IF current_frame = NoFrame THEN 0 ELSE current_frame[2]>>
    /\ thr' = [thr EXCEPT ![t].pc = "write2"]
    /\ UNCHANGED <<is_running, capture_thread, frame_lock, frame_count,
                   last_capture_time, dev_next, caller, rd, published, stamped, streamVars, detVars, auxVars, msgVars>>

\* self.current_frame = frame.copy(): the second pixel
WriteSecond(t) ==
    /\ thr[t].pc = "write2"
    /\ current_frame' = <<current_frame[1], thr[t].frame[2]>>
    /\ published' = published \cup {thr[t].frame[1]}
    /\ thr' = [thr EXCEPT ![t].pc = "stamp"]
    /\ UNCHANGED <<is_running, capture_thread, frame_lock, frame_count,
                   last_capture_time, dev_next, caller, rd, stamped, streamVars, detVars, auxVars, msgVars>>

\* self.last_capture_time = time.time(), and the lock is released
StampAndUnlock(t) ==
    /\ thr[t].pc = "stamp"
    /\ last_capture_time' = thr[t].frame[1]
    /\ frame_lock' = None
    /\ thr' = [thr EXCEPT ![t].pc = "sleep", ![t].frame = NoFrame]
    /\ UNCHANGED <<is_running, capture_thread, current_frame, frame_count,
                   dev_next, caller, rd, published, stamped, streamVars, detVars, auxVars, msgVars>>

\* time.sleep(1.0 / settings.camera_fps) is over
SleepOver(t) ==
    /\ thr[t].pc = "sleep"
    /\ thr' = [thr EXCEPT ![t].pc = "top"]
    /\ UNCHANGED <<is_running, capture_thread, frame_lock, current_frame, frame_count,
                   last_capture_time, dev_next, caller, rd, published, stamped, streamVars, detVars, auxVars, msgVars>>

\* (history) the last frame whose publication is complete: the second pixel of
\* the slot is written last
LastComplete ==
    IF current_frame = NoFrame \/ current_frame[2] = 0
    THEN NoFrame
    ELSE <<current_frame[2], current_frame[2]>>

\* get_current_frame is called
ReaderCall ==
    /\ rd.pc \in {"idle", "done"}
    /\ rd' = [pc |-> "lock", copy |-> NoFrame, result |-> NoFrame,
              prev |-> LastComplete,
              pub_at_call |-> published, info |-> NoInfo]
    /\ UNCHANGED <<is_running, capture_thread, thr, frame_lock, current_frame, frame_count,
                   last_capture_time, dev_next, caller, published, stamped, streamVars, detVars, auxVars, msgVars>>

\* with self.frame_lock (get_current_frame's)
ReaderLock ==
    /\ rd.pc = "lock"
    /\ LockFree
    /\ frame_lock' = ReaderId
    /\ rd' = [rd EXCEPT !.pc = "copy1"]
    /\ UNCHANGED <<is_running, capture_thread, thr, current_frame, frame_count,
                   last_capture_time, dev_next, caller, published, stamped, streamVars, detVars, auxVars, msgVars>>

\* "... if self.current_frame is not None else None", and the first pixel of the copy
ReaderFirst ==
    /\ rd.pc = "copy1"
    /\ IF current_frame = NoFrame
       THEN /\ rd' = [rd EXCEPT !.pc = "done", !.result = NoFrame]
            /\ frame_lock' = None
       ELSE /\ rd' = [rd EXCEPT !.pc = "copy2", !.copy = <<current_frame[1]>>]
            /\ UNCHANGED frame_lock
    /\ UNCHANGED <<is_running, capture_thread, thr, current_frame, frame_count,
                   last_capture_time, dev_next, caller, published, stamped, streamVars, detVars, auxVars, msgVars>>

\* the second pixel of the copy; the lock is released and the copy returned
ReaderSecond ==
    /\ rd.pc = "copy2"
    /\ rd' = [rd EXCEPT !.pc = "done", !.copy = NoFrame,
                        !.result = Append(rd.copy, current_frame[2])]
    /\ frame_lock' = None
    /\ UNCHANGED <<is_running, capture_thread, thr, current_frame, frame_count,
                   last_capture_time, dev_next, caller, published, stamped, streamVars, detVars, auxVars, msgVars>>

\* get_frame_info, called by the thread that got a frame from get_current_frame:
\* its own get_current_frame passes the lock, then frame_count and
\* last_capture_time are read without it
GetFrameInfo ==
    /\ rd.pc = "done"
    /\ rd.result # NoFrame
    /\ rd.info = NoInfo
    /\ LockFree
    /\ rd' = [rd EXCEPT !.info = <<frame_count, last_capture_time>>]
    /\ UNCHANGED <<is_running, capture_thread, thr, frame_lock, current_frame, frame_count,
                   last_capture_time, dev_next, caller, published, stamped, streamVars, detVars, auxVars, msgVars>>

NextCamera ==
    \/ StartCapture
    \/ StopCapture
    \/ JoinReturns
    \/ JoinTimesOut
    \/ \E t \in Threads : LoopTest(t)
    \/ \E t \in Threads : ReadFrame(t)
    \/ \E t \in Threads : ReadFails(t)
    \/ \E t \in Threads : CycleRaises(t)
    \/ \E t \in Threads : BackoffOver(t)
    \/ \E t \in Threads : CountFrameLoad(t)
    \/ \E t \in Threads : CountFrameStore(t)
    \/ \E t \in Threads : WriterLock(t)
    \/ \E t \in Threads : WriteFirst(t)
    \/ \E t \in Threads : WriteSecond(t)
    \/ \E t \in Threads : StampAndUnlock(t)
    \/ \E t \in Threads : SleepOver(t)
    \/ ReaderCall
    \/ ReaderLock
    \/ ReaderFirst
    \/ ReaderSecond

\* the stream side stays as constructed
StreamIdle ==
    /\ active_connections = {}
    /\ is_streaming = FALSE
    /\ stream_task = None
    /\ ep = [c \in Conns |-> "new"]
    /\ broken = {}
    /\ loop = [l \in LoopIds |-> NoLoop]
    /\ stops = [c \in Conns |-> NoStop]
    /\ ready = <<>>
    /\ cam_frame = None
    /\ since_waiting = WaitPeriod

InitCamera == CameraIdle /\ StreamIdle /\ DetectIdle /\ MessagesIdle /\ AuxIdle

SpecCamera == InitCamera /\ [][NextCamera]_vars

\* the camera with a caller of get_current_frame that goes on to get_frame_info
NextFrameInfo ==
    \/ StartCapture
    \/ StopCapture
    \/ JoinReturns
    \/ JoinTimesOut
    \/ \E t \in Threads : LoopTest(t)
    \/ \E t \in Threads : ReadFrameUpTo(t, MaxCountedReads)
    \/ \E t \in Threads : ReadFails(t)
    \/ \E t \in Threads : CycleRaises(t)
    \/ \E t \in Threads : BackoffOver(t)
    \/ \E t \in Threads : CountFrameLoad(t)
    \/ \E t \in Threads : CountFrameStore(t)
    \/ \E t \in Threads : WriterLock(t)
    \/ \E t \in Threads : WriteFirst(t)
    \/ \E t \in Threads : WriteSecond(t)
    \/ \E t \in Threads : StampAndUnlock(t)
    \/ \E t \in Threads : SleepOver(t)
    \/ ReaderCall
    \/ ReaderLock
    \/ ReaderFirst
    \/ ReaderSecond
    \/ GetFrameInfo

SpecFrameInfo == InitCamera /\ [][NextFrameInfo]_vars

\* ------------------------------------------------------ camera properties

\* C4: at most one acquisition-loop thread is alive at any time.
C4_SingleAcquisitionThread == Cardinality(AliveThreads) <= 1

\* C5: a finished get_current_frame call has returned either the empty
\* indicator, and then no frame had been published when it was called, or one
\* complete published frame (both pixels of the same frame) that is the frame
\* current at the call or one published since.
C5_NoTornFrame ==
    rd.pc = "done" =>
        IF rd.result = NoFrame
        THEN rd.pub_at_call = {}
        ELSE /\ rd.result[1] = rd.result[2]
             /\ rd.result[1] \in published
             /\ rd.result = rd.prev \/ rd.result[1] \notin rd.pub_at_call

\* a frame was current when get_current_frame was called, a loop thread has
\* published the next one before the copy was taken, and the call has returned
\* the new one
C5_Witness ==
    /\ rd.pc = "done"
    /\ rd.prev # NoFrame
    /\ rd.result # NoFrame
    /\ rd.result # rd.prev

\* stop_capture has returned and start_capture has not been called since
CaptureStopped == caller = "idle" /\ ~is_running

\* C14: once stop_capture has returned, no acquisition-loop thread is alive
\* (so none can publish a further frame).
C14_StopCaptureEndsLoop == CaptureStopped => AliveThreads = {}

\* C16: the counter and the timestamp get_frame_info returns to a thread that
\* got a frame from get_current_frame are the ones of that frame.
C16_InfoBelongsToFrame ==
    rd.info # NoInfo =>
        /\ <<rd.result[1], rd.info[1]>> \in stamped
        /\ rd.info[2] = rd.result[1]

\* C17: a thread of the acquisition loop ends only in a step taken while
\* is_running is False (stop_capture was called), and a cycle whose read fails
\* or that raises leaves the published frame, the counter and the timestamp as
\* they were and the thread alive.
C17_FailedCycleKeepsLoopAlive ==
    [][\A t \in Threads :
         /\ (thr[t].pc # "dead" /\ thr'[t].pc = "dead") => ~is_running
         /\ (thr[t].pc \in {"read", "count"} /\ thr'[t].pc \notin {"read", "count", "store"}) =>
               /\ t \in AliveThreads'
               /\ UNCHANGED <<current_frame, published, frame_count, last_capture_time>>]_vars

\* a cycle of a thread has raised after a frame was published: the thread is in
\* its 0.1 s back-off, capture is still on and the published frame is in place
C17_Witness ==
    \E t \in Threads :
        /\ thr[t].pc = "backoff"
        /\ is_running
        /\ current_frame # NoFrame
        /\ LastComplete # NoFrame

\* C18: the sequence number readers observe (frame_count) never decreases.
C18_FrameCountNeverDecreases == [][frame_count' >= frame_count]_vars

\* C29: the frame get_current_frame returns to the broadcast loop is never
\* older, in acquisition order, than the frame that was published when the
\* call began (the frame an earlier pass was given).
C29_DeliveryFollowsAcquisitionOrder ==
    (rd.pc = "done" /\ rd.prev # NoFrame /\ rd.result # NoFrame) =>
        rd.result[1] >= rd.prev[1]

\* ----------------------------------------------------- message properties

\* the handler of c returns to the endpoint's receive_text
HandlerReturns(c) == hs[c].pc # "idle" /\ hs'[c].pc = "idle"

\* C12: when the handling of a capture_image request ends, exactly one
\* capture_response has been sent to the requesting websocket, and it carries
\* a success flag and a message.
C12_OneCaptureResponse ==
    [][\A c \in Conns :
         (HandlerReturns(c) /\ hs[c].req.type = "capture_image") =>
            /\ Len(outbox[c]) = 1
            /\ outbox[c][1].type = "capture_response"
            /\ outbox[c][1].success \in {0, 1}
            /\ outbox[c][1].message # ""]_vars

\* C13: while the detection of a capture request of c is in progress, a task
\* other than the endpoint of c that is ready to run (the _stream_loop task
\* whose pacing delay or send is over, the endpoint of another websocket that
\* has received a message) can take its next step.
C13_InferenceOffTheEventLoop ==
    \A c \in Conns :
        (hs[c].pc = "inferring" /\ \E i \in DOMAIN ready : ready[i] # EpTask(c))
            => ENABLED OtherTaskSteps(c)

\* C20: when the handling of a ping with timestamp t on websocket c ends,
\* exactly one message has been sent to c, a pong whose client_timestamp is t;
\* and no step of that handling sends anything to another websocket or changes
\* the registry, the stream state or the detection flag.
C20_PingAnsweredByOnePong ==
    [][\A c \in Conns :
         (hs[c].req.type = "ping" /\ hs'[c] # hs[c]) =>
            /\ HandlerReturns(c) =>
                  /\ Len(outbox[c]) = 1
                  /\ outbox[c][1].type = "pong"
                  /\ outbox[c][1].data = hs[c].req.arg
            /\ \A d \in Conns \ {c} : outbox'[d] = outbox[d]
            /\ UNCHANGED <<active_connections, is_streaming, stream_task, loop,
                           detection_enabled>>]_vars

\* the pong of a ping with timestamp 2 is on its way to websocket c while the
\* endpoint of another websocket handles a message of its own
C20_Witness ==
    \E c \in Conns :
        /\ hs[c].pc = "sending"
        /\ hs[c].req = [type |-> "ping", arg |-> 2]
        /\ Len(outbox[c]) = 1
        /\ outbox[c][1].data = 2
        /\ \E d \in Conns \ {c} : hs[d].pc # "idle"

\* the handler of c, called for a message of the given type, runs to its first
\* await (or to its return)
HandlerStarts(c, type) ==
    hs[c].pc = "received" /\ hs[c].req.type = type /\ hs'[c] # hs[c]

C26_InferenceFailureStaysLocal ==
    [][\A c \in Conns :
         (hs[c].pc = "inferring" /\ hs'[c] # hs[c]) =>
            /\ \A d \in Conns \ {c} : outbox'[d] = outbox[d]
            /\ UNCHANGED <<active_connections, is_streaming, stream_task, loop, stops,
                           cam_frame, camVars>>
            /\ outbox'[c] # outbox[c] =>
                  /\ Len(outbox'[c]) = 1
                  /\ outbox'[c][1].type = "capture_response"
                  /\ outbox'[c][1].detection_results \in {"error", "None"}]_vars

\* the detector raised for the capture request of c: the response that carries
\* the error is on its way to c, nothing is on its way to the other websockets,
\* which are still registered, and the stream is on
C26_Witness ==
    \E c \in Conns :
        /\ hs[c].pc = "sending"
        /\ Len(outbox[c]) = 1
        /\ outbox[c][1].detection_results = "error"
        /\ outbox[c][1].success = 1
        /\ \A d \in Conns \ {c} : outbox[d] = <<>>
        /\ active_connections = Conns
        /\ is_streaming
        /\ \E l \in LoopIds : Alive(l)

\* C27: while no detector is loaded, no capture_response sent to a websocket
\* and no result of the HTTP capture route carries detection results.
C27_NoDetectionWithoutModel ==
    ~defect_detector =>
        /\ http_result.detection_results = "None"
        /\ \A c \in Conns : \A i \in DOMAIN outbox[c] :
               outbox[c][i].detection_results = "None"

\* C21: the handling of a text that is not JSON, of a JSON text that is not an
\* object and of an object of unknown type sends nothing to any websocket,
\* leaves the registry, the stream state and the detection flag as they were,
\* and returns to the endpoint's receive_text: the websocket stays open and
\* registered.
C21_UnhandledMessageIgnored ==
    [][\A c \in Conns :
         (hs[c].req.type \in IgnoredKinds /\ hs'[c] # hs[c]) =>
            /\ HandlerReturns(c)
            /\ UNCHANGED <<outbox, active_connections, is_streaming, stream_task,
                           detection_enabled>>
            /\ ep'[c] = "open"
            /\ c \in active_connections']_vars

\* every text received was one without a handler and its handling is over on
\* every websocket, and the loop task is sending a frame to a websocket
C21_Witness ==
    /\ received = MaxMsgs
    /\ \A c \in Conns : hs[c] = NoHandler
    /\ \E l \in LoopIds : loop[l].pc = "send" /\ loop[l].cur \in active_connections

\* ------------------------------------------------------------ detect model
\* postprocess_detections as a function of the model output.  A candidate is
\* one row of predictions[0]: centre, width and height in input-tensor pixels,
\* and the arg-max class with its score.  Confidences and thresholds are in
\* hundredths.

InputSize == 640           \* input_size (defect_detection_service.py:92)
ConfThreshold == 50        \* conf_threshold = 0.5 (defect_detection_service.py:93)
NmsThreshold == 40         \* the 0.4 passed to NMSBoxes (defect_detection_service.py:158)
NumClassNames == 8         \* len(self.defect_class_names) (defect_detection_service.py:34)

\* the rows a model output is made of
CandBoxes ==
    { [cx |-> 50,  cy |-> 50,  w |-> 100,  h |-> 100],
      [cx |-> 75,  cy |-> 50,  w |-> 50,   h |-> 100],
      [cx |-> 400, cy |-> 400, w |-> 200,  h |-> 200],
      [cx |-> 450, cy |-> 450, w |-> 100,  h |-> 100],
      [cx |-> 300, cy |-> 300, w |-> -100, h |-> 100],
      [cx |-> 600, cy |-> -20, w |-> 200,  h |-> 100] }
CandScores == {40, 50, 60, 90}
CandClasses == {0, 8}
Candidates ==
    { [cx |-> b.cx, cy |-> b.cy, w |-> b.w, h |-> b.h, class_id |-> k, confidence |-> c] :
        b \in CandBoxes, k \in CandClasses, c \in CandScores }
OrigSizes == { <<640, 640>>, <<320, 160>> }

SeqsUpTo(S, n) == UNION { [1..k -> S] : k \in 0..n }
Range(f) == { f[i] : i \in DOMAIN f }
Max(a, b) == IF a >= b THEN a ELSE b
Min(a, b) == IF a <= b THEN a ELSE b

\* int(p / q) for q > 0: Python's int() truncates towards zero
IntOfQuotient(p, q) == IF p >= 0 THEN p \div q ELSE -((-p) \div q)

\* int((center - extent / 2) * scale) with scale = original / input;
\* sign is -1 for x1, y1 and +1 for x2, y2
ScaledCorner(center, extent, sign, original, input) ==
    IntOfQuotient((2 * center + sign * extent) * original, 2 * input)

\* max(0, min(v, original))
Clamp(v, original) == Max(0, Min(v, original))

\* one row that passed the filter, as the detection dictionary appended for it
Decode(cand, size) ==
    [bbox |-> << Clamp(ScaledCorner(cand.cx, cand.w, -1, size[1], InputSize), size[1]),
                 Clamp(ScaledCorner(cand.cy, cand.h, -1, size[2], InputSize), size[2]),
                 Clamp(ScaledCorner(cand.cx, cand.w, 1, size[1], InputSize), size[1]),
                 Clamp(ScaledCorner(cand.cy, cand.h, 1, size[2], InputSize), size[2]) >>,
     confidence |-> cand.confidence,
     class_id |-> cand.class_id]

\* the test of line 129 without its class-range conjunct
PassesFilter_ConfidenceOnly(cand) == cand.confidence >= ConfThreshold

\* the test of line 129
PassesFilter(cand) ==
    cand.confidence >= ConfThreshold /\ cand.class_id < NumClassNames

\* the list `detections` after the for loop over predictions[0]
RECURSIVE Decoded(_, _)
Decoded(cands, size) ==
    IF cands = <<>> THEN <<>>
    ELSE (IF PassesFilter(Head(cands)) THEN <<Decode(Head(cands), size)>> ELSE <<>>)
         \o Decoded(Tail(cands), size)

\* cv2.dnn.NMSBoxes reads each 4-list as a rectangle (x, y, width, height)
RectArea(r) == r[3] * r[4]
RectIntersectionArea(a, b) ==
    LET x1 == Max(a[1], b[1])
        y1 == Max(a[2], b[2])
        wd == Min(a[1] + a[3], b[1] + b[3]) - x1
        ht == Min(a[2] + a[4], b[2] + b[4]) - y1
    IN IF wd <= 0 \/ ht <= 0 THEN 0 ELSE wd * ht

\* rectOverlap(a, b) <= nms_threshold, with the threshold in hundredths
\* (two rectangles of no area overlap by 1)
OverlapAtMost(a, b, threshold) ==
    LET aab == RectIntersectionArea(a, b)
        total == RectArea(a) + RectArea(b)
    IN IF total <= 0 THEN 100 <= threshold
       ELSE 100 * aab <= threshold * (total - aab)

\* (mutant) the sort is ascending
RECURSIVE ByScore_Ascending(_, _)
ByScore_Ascending(scores, idx) ==
    IF idx = {} THEN <<>>
    ELSE LET first == CHOOSE i \in idx : \A j \in idx \ {i} :
                          scores[i] < scores[j] \/ (scores[i] = scores[j] /\ i < j)
         IN <<first>> \o ByScore_Ascending(scores, idx \ {first})

\* (mutant) the sort is not stable: of equal scores the later index comes first
RECURSIVE ByScore_LaterFirst(_, _)
ByScore_LaterFirst(scores, idx) ==
    IF idx = {} THEN <<>>
    ELSE LET first == CHOOSE i \in idx : \A j \in idx \ {i} :
                          scores[i] > scores[j] \/ (scores[i] = scores[j] /\ i > j)
         IN <<first>> \o ByScore_LaterFirst(scores, idx \ {first})

\* the indices with a score above the threshold, by descending score, equal
\* scores in index order (GetMaxScoreIndex: a stable sort)
RECURSIVE ByScore(_, _)
ByScore(scores, idx) ==
    IF idx = {} THEN <<>>
    ELSE LET first == CHOOSE i \in idx : \A j \in idx \ {i} :
                          scores[i] > scores[j] \/ (scores[i] = scores[j] /\ i < j)
         IN <<first>> \o ByScore(scores, idx \ {first})

\* NMSFast_: an index is kept when it overlaps no kept one by more than the threshold
RECURSIVE Suppress(_, _, _, _)
Suppress(boxes, order, kept, threshold) ==
    IF order = <<>> THEN kept
    ELSE LET i == Head(order)
             keep == \A k \in Range(kept) : OverlapAtMost(boxes[i], boxes[k], threshold)
         IN Suppress(boxes, Tail(order), IF keep THEN Append(kept, i) ELSE kept, threshold)

\* cv2.dnn.NMSBoxes(bboxes, scores, score_threshold, nms_threshold)
NMSBoxes(boxes, scores, score_threshold, nms_threshold) ==
    Suppress(boxes,
             ByScore(scores, {i \in DOMAIN scores : scores[i] > score_threshold}),
             <<>>, nms_threshold)

\* the suppression step of postprocess_detections (lines 153-165), applied to
\* the list `detections`
ApplySuppression(detections) ==
    LET boxes == [i \in DOMAIN detections |-> detections[i].bbox]
        scores == [i \in DOMAIN detections |-> detections[i].confidence]
        indices == IF Len(detections) > 0
                   THEN NMSBoxes(boxes, scores, ConfThreshold, NmsThreshold)
                   ELSE <<>>
    IN [n \in DOMAIN indices |-> detections[indices[n]]]

\* postprocess_detections(outputs, original_size)
PostprocessDetections(cands, size) == ApplySuppression(Decoded(cands, size))

InitDetect ==
    /\ det_pc = "input"
    /\ det_cands \in SeqsUpTo(Candidates, MaxCands)
    /\ det_size \in OrigSizes
    /\ det_out = <<>>
    /\ StreamIdle
    /\ CameraIdle
    /\ MessagesIdle
    /\ AuxIdle

\* postprocess_detections is called on the model output and returns
Postprocess ==
    /\ det_pc = "input"
    /\ det_pc' = "done"
    /\ det_out' = PostprocessDetections(det_cands, det_size)
    /\ UNCHANGED <<det_cands, det_size, streamVars, camVars, msgVars, auxVars>>

NextDetect == Postprocess

SpecDetect == InitDetect /\ [][NextDetect]_vars

\* ------------------------------------------------------ detect properties

\* IoU of two corner boxes (x1, y1, x2, y2) above the threshold (in hundredths)
CornerArea(b) == Max(0, b[3] - b[1]) * Max(0, b[4] - b[2])
CornerIntersection(a, b) ==
    Max(0, Min(a[3], b[3]) - Max(a[1], b[1])) * Max(0, Min(a[4], b[4]) - Max(a[2], b[2]))
CornerIoUAbove(a, b, threshold) ==
    LET inter == CornerIntersection(a, b)
        union == CornerArea(a) + CornerArea(b) - inter
    IN 100 * inter > threshold * union

\* C9: the returned list is a greedy suppression over the corner boxes: no two
\* returned boxes have IoU above the threshold, and every candidate that
\* passed the confidence filter and is not returned has IoU above the
\* threshold with a returned box of at least its confidence.
C9_GreedySuppressionOverCornerBoxes ==
    det_pc = "done" =>
        LET passed == Decoded(det_cands, det_size) IN
        /\ \A i, j \in DOMAIN det_out :
               i # j => ~CornerIoUAbove(det_out[i].bbox, det_out[j].bbox, NmsThreshold)
        /\ \A i \in DOMAIN passed :
               (passed[i] \notin Range(det_out)) =>
                   \E r \in Range(det_out) :
                       /\ CornerIoUAbove(passed[i].bbox, r.bbox, NmsThreshold)
                       /\ r.confidence >= passed[i].confidence

\* C10: every returned detection has 0 <= x1 <= x2 <= width and
\* 0 <= y1 <= y2 <= height.
C10_BoxesOrderedAndInBounds ==
    det_pc = "done" =>
        \A d \in Range(det_out) :
            /\ 0 <= d.bbox[1] /\ d.bbox[1] <= d.bbox[3] /\ d.bbox[3] <= det_size[1]
            /\ 0 <= d.bbox[2] /\ d.bbox[2] <= d.bbox[4] /\ d.bbox[4] <= det_size[2]

\* C11: every returned detection has confidence at least the threshold and a
\* class id in the known range, and is the decoding of a row that passed both
\* tests; rows failing either test do not appear in the output.
C11_OnlyFilteredCandidatesReturned ==
    det_pc = "done" =>
        \A d \in Range(det_out) :
            /\ d.confidence >= ConfThreshold
            /\ d.class_id \in 0..(NumClassNames - 1)
            /\ \E i \in DOMAIN det_cands :
                   /\ PassesFilter(det_cands[i])
                   /\ d = Decode(det_cands[i], det_size)

\* a detection is returned from an output that also holds a row failing the filter
C11_Witness ==
    /\ det_pc = "done"
    /\ det_out # <<>>
    /\ \E i \in DOMAIN det_cands :
           det_cands[i].confidence < ConfThreshold \/ det_cands[i].class_id >= NumClassNames

\* C23: the returned detections are in descending order of confidence.
C23_OrderedByConfidence ==
    det_pc = "done" =>
        \A i, j \in DOMAIN det_out : i < j => det_out[i].confidence >= det_out[j].confidence

\* two detections are returned, and the row of the one returned first came
\* after the row of the other in the model output
C23_Witness ==
    /\ det_pc = "done"
    /\ Len(det_cands) = 2
    /\ Len(det_out) = 2
    /\ det_cands[1].confidence < det_cands[2].confidence
    /\ det_out[1].confidence > det_out[2].confidence

\* C24: the suppression step applied to the list postprocess_detections
\* returned returns that list: the same detections in the same order.
C24_SuppressionIdempotent ==
    det_pc = "done" => ApplySuppression(det_out) = det_out

\* two detections of equal confidence are returned, so that the second
\* application has a pair to compare and a tie to order
C24_Witness ==
    /\ det_pc = "done"
    /\ Len(det_out) = 2
    /\ det_out[1].confidence = det_out[2].confidence
    /\ det_out[1] # det_out[2]

\* C25: when the model output holds exactly two rows, of the same class, both
\* with confidence above the threshold, whose corner boxes have IoU above the
\* IoU threshold, exactly one detection is returned, the one of higher
\* confidence.
C25_OverlappingPairYieldsBest ==
    (/\ det_pc = "done"
     /\ Len(det_cands) = 2
     /\ det_cands[1].class_id = det_cands[2].class_id
     /\ det_cands[1].class_id < NumClassNames
     /\ det_cands[1].confidence > ConfThreshold
     /\ det_cands[2].confidence > ConfThreshold
     /\ det_cands[1].confidence # det_cands[2].confidence
     /\ CornerIoUAbove(Decode(det_cands[1], det_size).bbox,
                       Decode(det_cands[2], det_size).bbox, NmsThreshold))
        => /\ Len(det_out) = 1
           /\ det_out[1].confidence = Max(det_cands[1].confidence, det_cands[2].confidence)

\* C35: while detection_enabled is false no capture request, whatever its
\* enable_detection, reaches the detector or is answered with detection
\* results (to which alone an analysis is added); while it is true, as after a
\* set_detection from any websocket, a capture request with enable_detection
\* reaches the detector when a model is loaded and a frame is available.
C35_DisabledFlagStopsDetection ==
    [][\A c \in Conns :
          /\ hs'[c].pc = "inferring" => detection_enabled'
          /\ (~detection_enabled /\ HandlerStarts(c, "capture_image")) =>
                /\ hs'[c].pc # "inferring"
                /\ outbox'[c] # outbox[c] =>
                      outbox'[c][Len(outbox'[c])].detection_results = "None"
          /\ (/\ detection_enabled /\ HandlerStarts(c, "capture_image")
              /\ hs[c].req.arg = 1 /\ defect_detector /\ cam_frame # None) =>
                hs'[c].pc = "inferring"]_vars

\* a set_detection of one websocket has disabled detection, a later one has
\* enabled it again, and a capture request is in the detector
C35_Witness ==
    \E c, d \in Conns :
        /\ c # d
        /\ hs[c].pc = "inferring"
        /\ detection_enabled
        /\ \E i \in DOMAIN outbox[d] :
              outbox[d][i].type = "detection_setting_response" /\ outbox[d][i].data = 0

\* ------------------------------------------------------ stream properties

AliveLoops == {l \in LoopIds : Alive(l)}

\* "Streaming": is_streaming is true and a live broadcast-loop task exists
Streaming == is_streaming /\ AliveLoops # {}

\* No attach, detach, start_streaming or stop_streaming is in progress or
\* scheduled: no connect is between its awaits, no websocket with a failed
\* transport still waits for its endpoint to call disconnect, no stop_streaming
\* task is scheduled or awaiting, and no loop task is cancelled or about to leave
\* its while loop.
Quiescent ==
    /\ ready = <<>>
    /\ \A c \in Conns : ep[c] \in {"new", "open", "closed"}
    /\ broken = {}
    /\ \A s \in Conns : stops[s].pc = "none"
    /\ \A l \in AliveLoops : ~loop[l].cancel /\ is_streaming /\ active_connections # {}

\* C1: in every quiescent state the broadcaster is Streaming iff the registry
\* is non-empty.
C1_StreamingIffRegistryNonEmpty ==
    Quiescent => (Streaming <=> active_connections # {})

\* the step in which websocket_endpoint calls disconnect for c
DisconnectStep(c) == ep[c] = "closing" /\ ep'[c] = "closed"

\* C2: when disconnect of the last registered websocket returns, is_streaming
\* is false and no broadcast-loop task is alive.
C2_LastDetachStopsBeforeReturn ==
    [][\A c \in Conns :
          (DisconnectStep(c) /\ c \in active_connections /\ active_connections' = {})
              => (~is_streaming' /\ AliveLoops' = {})]_vars

\* C3: (i) the attach of the first websocket to an empty registry creates
\* exactly one broadcast-loop task; (ii) the detach of the last websocket
\* schedules exactly one stop; (iii) the detach of a websocket that is not in
\* the registry changes neither the registry nor the stream state and schedules
\* no stop.
C3_FirstAttachLastDetachOnce ==
    [][\A c \in Conns :
          /\ (/\ ep[c] = "welcome" /\ ep'[c] = "open"
              /\ active_connections = {c}
              /\ \A s \in Conns : stops[s].pc = "none")
                 => (is_streaming' /\ Cardinality(AliveLoops') = 1)
          /\ Cardinality(Created') <= Cardinality(Created) + 1
          /\ (DisconnectStep(c) /\ c \in active_connections /\ active_connections' = {})
                 => (stops'[c].pc = "scheduled"
                     /\ \A s \in Conns \ {c} : stops'[s] = stops[s])
          /\ (DisconnectStep(c) /\ c \notin active_connections)
                 => UNCHANGED <<active_connections, is_streaming, stream_task, loop, stops>>]_vars

\* stop_streaming task s returns
StopReturns(s) == stops[s].pc # "none" /\ stops'[s].pc = "none"

\* C15: when a call of stop_streaming returns, no _stream_loop task that was
\* cancelled is still alive.
C15_StopStreamingAwaitsLoop ==
    [][\A s \in Conns :
         StopReturns(s) =>
            \A l \in LoopIds : ~(loop'[l].cancel /\ loop'[l].pc \notin {"none", "done"})]_vars

\* a _stream_loop task begins a "waiting" broadcast
WaitingBroadcastBegins ==
    \E l \in LoopIds :
        /\ loop[l].pc \in {"start", "sleep"}
        /\ loop'[l].pc = "send"
        /\ loop'[l].payload.type = "camera_status"

\* C19: a "waiting" broadcast begins only when at least WaitPeriod pacing
\* delays of 0.1 s have ended since the previous one began (or there was none).
C19_WaitingAtMostOncePerSecond ==
    [][WaitingBroadcastBegins => since_waiting >= WaitPeriod]_vars

\* C6: every websocket that is sent a message in one broadcast pass is sent the
\* payload the pass fixed when it began.
C6_SamePayloadWithinPass ==
    \A l \in LoopIds :
        /\ Cardinality(loop[l].sent) <= 1
        /\ loop[l].pc = "send" => loop[l].sent \subseteq {loop[l].payload}

\* a pass has delivered to one websocket and is suspended in the send to the
\* next one while the camera has already published a newer frame
C6_Witness ==
    \E l \in LoopIds :
        /\ loop[l].pc = "send"
        /\ loop[l].sent = {loop[l].payload}
        /\ loop[l].payload.type = "video_frame"
        /\ loop[l].payload.data < cam_frame
        /\ SendOk(loop[l].cur)

\* the step in which broadcast, run by loop task l, resumes from a send
PassStep(l) ==
    /\ loop[l].pc = "send"
    /\ loop'[l].pc # "send" \/ loop'[l].to_visit # loop[l].to_visit

\* C7: a failed push does not end the pass (the next websocket of the copy is
\* sent to), the pass leaves the registry alone while it iterates, and the
\* websockets whose push failed leave the registry only when the pass has
\* visited every websocket of its copy.
C7_FailedPushRemovedAfterPass ==
    [][\A l \in LoopIds :
          PassStep(l) /\ ~loop[l].cancel =>
              LET c == loop[l].cur
                  failed == IF SendOk(c) THEN loop[l].disconnected
                            ELSE loop[l].disconnected \cup {c}
              IN /\ loop[l].to_visit # {} =>
                     /\ loop'[l].pc = "send"
                     /\ loop'[l].cur \in loop[l].to_visit
                     /\ loop'[l].disconnected = failed
                     /\ active_connections' = active_connections
                 /\ loop[l].to_visit = {} =>
                     /\ loop'[l].pc = "sleep"
                     /\ active_connections' = active_connections \ failed]_vars

\* a push of the pass has failed, the failing websocket is still registered,
\* and the pass is sending to another websocket
C7_Witness ==
    \E l \in LoopIds :
        /\ loop[l].pc = "send"
        /\ ~loop[l].cancel
        /\ loop[l].disconnected # {}
        /\ loop[l].disconnected \subseteq active_connections
        /\ SendOk(loop[l].cur)

\* C8: no send is started on a websocket after its detach: whenever a loop
\* task starts a send, the target's endpoint has not called disconnect.
C8_NoSendAfterDetach ==
    [][\A l \in LoopIds :
          (/\ loop'[l].pc = "send"
           /\ loop[l].pc # "send" \/ loop'[l].to_visit # loop[l].to_visit)
              => ep'[loop'[l].cur] # "closed"]_vars

\* the loop tasks that can still send: alive and not cancelled
AbleToSend == {l \in LoopIds : Alive(l) /\ ~loop[l].cancel}

\* C32: at most one broadcast-loop task can still send, it is the task the
\* stored handle refers to, and no two loop tasks are in a send at once.
C32_OneSendingLoop ==
    /\ Cardinality(AbleToSend) <= 1
    /\ AbleToSend \subseteq {stream_task}
    /\ Cardinality({l \in LoopIds : loop[l].pc = "send"}) <= 1

\* start_streaming has created a new loop task while a stop_streaming call
\* still awaits the task it cancelled
C32_Witness ==
    \E l \in LoopIds, k \in AbleToSend, s \in Conns :
        /\ l # k
        /\ Alive(l) /\ loop[l].cancel
        /\ stops[s].pc = "awaiting" /\ stops[s].target = l
        /\ stream_task = k /\ is_streaming

\* C33: an exception raised inside an iteration of the broadcast loop, while
\* websockets are registered, does not end the loop task, and does not leave
\* is_streaming true with no live loop task.
C33_LoopErrorRecoverable ==
    [][\A l \in LoopIds :
          LoopRaises(l) => /\ loop'[l].pc # "done"
                           /\ ~(is_streaming' /\ {k \in LoopIds : loop'[k].pc \notin {"none", "done"}} = {})]_vars

\* a broadcast pass is sending its message to websocket c
BroadcastTo(c) == \E l \in LoopIds : loop[l].pc = "send" /\ loop[l].cur = c

\* C34: no broadcast is sent to a websocket before its welcome message: when
\* a pass sends to a websocket, connect has already given the welcome message
\* to that websocket's send_text.
C34_WelcomeFirst ==
    \A c \in Conns : BroadcastTo(c) => ep[c] \notin {"new", "accept"}

\* a websocket attached while the loop task was running: the pass sends to it
\* while connect still awaits the send of its welcome message
C34_Witness ==
    \E c \in Conns, l \in LoopIds :
        /\ loop[l].pc = "send" /\ loop[l].cur = c /\ ~loop[l].cancel
        /\ ep[c] = "welcome"
        /\ \E d \in Conns \ {c} : ep[d] = "open"

\* websocket c is attached and sends to it succeed
AttachedAndSound(c) == ep[c] = "open" /\ c \in active_connections /\ c \notin broken

\* C31: a websocket that from some moment on stays attached, with every send
\* to it succeeding, is sent broadcasts again and again.
C31_AttachedKeepsReceiving ==
    \A c \in Conns : <>[]AttachedAndSound(c) => []<>BroadcastTo(c)

\* --------------------------------------------------------- square resizing

SquareSize == 640                     \* the default of resize_to_square's size

\* the number of indices a slice start:stop selects on an axis of length n
SliceLen(start, stop, n) == Max(0, Min(stop, n) - Min(start, n))

\* (mutant) the crop starts at the edge
CropStart_Edge(longer, shorter) == 0

\* start_x and start_y: (w - h) // 2 and (h - w) // 2
CropStart(longer, shorter) == (longer - shorter) \div 2

\* cv2.resize(cropped, (size, size)): the region of the frame that `cropped`
\* views, resampled; shape is <<width, height>> of the result
Cv2Resize(cropped, dsize) == [region |-> cropped, shape |-> dsize]

\* resize_to_square(frame, size), frame.shape being (h, w)
ResizeToSquare(w, h, size) ==
    LET start_x == CropStart(w, h)
        start_y == CropStart(h, w)
        cropped == IF w > h
                   THEN [x |-> start_x, y |-> 0,
                         w |-> SliceLen(start_x, start_x + h, w), h |-> h]
                   ELSE [x |-> 0, y |-> start_y,
                         w |-> w, h |-> SliceLen(start_y, start_y + w, h)]
    IN Cv2Resize(cropped, <<size, size>>)

InitSquare ==
    /\ sq_pc = "input"
    /\ sq_frame \in (1..MaxSide) \X (1..MaxSide)
    /\ sq_size \in {1, 3, SquareSize}
    /\ sq_out = NoSquare
    /\ StartupIdle
    /\ StreamIdle
    /\ CameraIdle
    /\ DetectIdle
    /\ MessagesIdle

\* resize_to_square is called on the frame and returns
Resize ==
    /\ sq_pc = "input"
    /\ sq_pc' = "done"
    /\ sq_out' = ResizeToSquare(sq_frame[1], sq_frame[2], sq_size)
    /\ UNCHANGED <<sq_frame, sq_size, startupVars, streamVars, camVars, detVars, msgVars>>

NextSquare == Resize

SpecSquare == InitSquare /\ [][NextSquare]_vars

\* C28: resize_to_square takes a square of side min(w, h) that covers the
\* whole shorter axis and starts floor(|w - h| / 2) along the longer one, so
\* that the two margins differ by at most one pixel, and returns an image of
\* exactly size x size.
C28_CentredSquareOfTargetSize ==
    sq_pc = "done" =>
        LET w == sq_frame[1]
            h == sq_frame[2]
            side == Min(w, h)
            c == sq_out.region
            before == IF w > h THEN c.x ELSE c.y
            after == Max(w, h) - side - before
        IN /\ c.w = side /\ c.h = side
           /\ before = (Max(w, h) - side) \div 2
           /\ after - before \in {0, 1}
           /\ IF w > h THEN c.y = 0 ELSE c.x = 0
           /\ sq_out.shape = <<sq_size, sq_size>>

C28_Witness ==
    /\ sq_pc = "done"
    /\ sq_frame = <<5, 2>>
    /\ sq_size = SquareSize
    /\ sq_out.region = [x |-> 1, y |-> 0, w |-> 2, h |-> 2]

\* ------------------------------------------------------------------ startup

\* isOpened(), the ret of the verification read, and the step that raises
Devices == [opened : BOOLEAN, ret : BOOLEAN,
            raises : {"nothing", "VideoCapture", "set", "read"}]

\* the try block of initialize
InitializeTry(d) ==
    IF d.raises = "VideoCapture" THEN "raised"
    ELSE IF ~d.opened THEN "False"
    ELSE IF d.raises \in {"set", "read"} THEN "raised"
    ELSE IF ~d.ret THEN "False"
    ELSE "True"

\* (mutant) the exception leaves initialize
InitializeExcept_Reraise(outcome) == outcome

\* except Exception: return False
InitializeExcept(outcome) == IF outcome = "raised" THEN "False" ELSE outcome

\* CameraService.initialize
Initialize(d) == InitializeExcept(InitializeTry(d))

InitStartup ==
    /\ boot_pc = "starting"
    /\ device \in Devices
    /\ initialize_result = "none"
    /\ SquareIdle
    /\ StreamIdle
    /\ CameraIdle
    /\ DetectIdle
    /\ MessagesIdle

\* lifespan, up to its yield
Lifespan ==
    /\ boot_pc = "starting"
    /\ initialize_result' = Initialize(device)
    /\ IF initialize_result' = "True"
       THEN StartCaptureStep /\ boot_pc' = "started"
       ELSE boot_pc' = "failed" /\ UNCHANGED camVars
    /\ UNCHANGED <<device, squareVars, streamVars, detVars, msgVars>>

\* lifespan, after its yield: cleanup, to the join of its stop_capture
Cleanup == boot_pc = "started" /\ StopCapture

NextStartup ==
    \/ Lifespan
    \/ Cleanup
    \/ JoinReturns
    \/ JoinTimesOut
    \/ \E t \in Threads : LoopTest(t)
    \/ \E t \in Threads : ReadFrame(t)
    \/ \E t \in Threads : ReadFails(t)
    \/ \E t \in Threads : CycleRaises(t)
    \/ \E t \in Threads : BackoffOver(t)
    \/ \E t \in Threads : CountFrameLoad(t)
    \/ \E t \in Threads : CountFrameStore(t)
    \/ \E t \in Threads : WriterLock(t)
    \/ \E t \in Threads : WriteFirst(t)
    \/ \E t \in Threads : WriteSecond(t)
    \/ \E t \in Threads : StampAndUnlock(t)
    \/ \E t \in Threads : SleepOver(t)

SpecStartup == InitStartup /\ [][NextStartup]_vars

\* C30: when the device cannot be opened, the verification read fails or a
\* step raises, initialize returns False and raises nothing, startup fails,
\* and no acquisition loop is ever started.
C30_FailedInitializeStopsStartup ==
    (~device.opened \/ ~device.ret \/ device.raises # "nothing") =>
        /\ initialize_result \in {"none", "False"}
        /\ boot_pc \in {"starting", "failed"}
        /\ boot_pc = "failed" <=> initialize_result = "False"
        /\ ~is_running
        /\ CreatedThreads = {}

C30_Witness ==
    /\ boot_pc = "failed"
    /\ device = [opened |-> TRUE, ret |-> TRUE, raises |-> "read"]
    /\ initialize_result = "False"

====
